---- MODULE Spec2Model ----
(***************************************************************************)
(* A model of the object-streaming library (src/lib/index.ts, the second   *)
(* listing, lines 111-422): the fan-out dispatcher of SourceStream, the    *)
(* StreamBatcher and the SynchroniserStream.                               *)
(*                                                                         *)
(* JavaScript runs every handler to completion on one thread, so each      *)
(* input() call, pipe() call and timer callback is one action.  The three  *)
(* components share no state; each has its own specification (FanSpec,     *)
(* BatchSpec, SyncSpec) in which the other two stay in their initial state.*)
(* Further specifications vary one component: ThrowSpec (recipients that   *)
(* throw), MergeSpec (the README's in-line merge), BurstSpec (the README's *)
(* loops into a batcher), FlushSpec (emitBatch() called directly),     *)
(* CycleSpec (the batcher's output piped back into its input) and          *)
(* SyncLiveSpec (a wrapped node whose pending outputs are made in the end).*)
(* Variables ending in Log are history variables: the sequence of calls    *)
(* the environment made and of the calls the code made in response.        *)
(***************************************************************************)
EXTENDS Integers, Sequences, FiniteSets, TLC

VARIABLES
    outputStreams,  \* SourceStream.outputStreams of every node
    kinds,          \* what each node's input() does: "pass", "double" or "throws"
    pipeReturned,   \* the value the last pipe() call returned
    fanLog,         \* history: pipe() and input() calls, and the calls output() made
    constructed,    \* "new" before new StreamBatcher(options), then "ok" or "threw"
    options,        \* StreamBatcher.options
    batch,          \* StreamBatcher.batch
    idleTimer,      \* StreamBatcher.idleTimer: a timer handle or null
    delayTimer,     \* StreamBatcher.delayTimer: a timer handle or null
    timers,         \* the runtime's pending timeouts, set by setTimeout
    nextHandle,     \* the handle the next setTimeout returns
    batchLog,       \* history: constructor, input(), setTimeout, clearTimeout,
                    \* timer firings and the arrays output() emitted
    feedback,       \* whether the batcher's output is piped back into its input
    upstream,       \* what feeds the batcher in the README's loops: the source
                    \* itself ("direct") or the source through filter and map
    wrapped,        \* what SynchroniserStream.strm is: "map", "filter" or "spread"
    strmAsync,      \* whether strm emits after an await (mapAsync, ...) or inside input()
    buffer,         \* SynchroniserStream.buffer
    pending,        \* SynchroniserStream.pending
    running,        \* strm's suspended invocations: the item and the outputs made so far
    syncLog         \* history: input() calls, strm.input() calls and the outputs re-emitted

fanVars == <<outputStreams, kinds, pipeReturned, fanLog>>

batchVars == <<constructed, options, batch, idleTimer, delayTimer, timers,
               nextHandle, batchLog, feedback, upstream>>

syncVars == <<wrapped, strmAsync, buffer, pending, running, syncLog>>

vars == <<fanVars, batchVars, syncVars>>

(***************************************************************************)
(* Fan-out: PassthroughStream nodes linked by pipe().                      *)
(***************************************************************************)

\* The nodes of the graph. Node Entry is source(); the others are forEach()
\* nodes. Both kinds pass their input on unchanged ("pass"), unless the
\* function given to forEach() throws ("throws"). A map(num => num * 2) node
\* is of kind "double". An exception is the "throw" event that ends the
\* sequence of calls made: it unwinds every output() loop on the stack.
Nodes == 1..3

Entry == 1

Objs == {"a", "b"}

MaxPipes == 3

MaxFanInputs == 2

RECURSIVE input(_, _, _)
RECURSIVE outputFrom(_, _, _, _)

\* The calls made ended in an exception.
Threw(calls) == calls # <<>> /\ calls[Len(calls)].type = "throw"

\* A plausible bug in output(): the loop stops one short of the last recipient.
outputFromSkipsLast(os, n, obj, i) ==
    IF i >= Len(os[n]) THEN <<>>
    ELSE LET made == <<[type |-> "call", by |-> n, to |-> os[n][i], obj |-> obj]>>
                     \o input(os, os[n][i], obj)
         IN  IF Threw(made) THEN made
             ELSE made \o outputFrom(os, n, obj, i + 1)

\* A plausible variant of output(): each input() call is wrapped in try/catch,
\* so that the loop goes on after a recipient threw.
outputFromCatches(os, n, obj, i) ==
    IF i > Len(os[n]) THEN <<>>
    ELSE <<[type |-> "call", by |-> n, to |-> os[n][i], obj |-> obj]>>
         \o input(os, os[n][i], obj)
         \o outputFrom(os, n, obj, i + 1)

\* A plausible variant of output(): every recipient is handed the object before
\* any of them passes it on.
outputFromBreadthFirst(os, n, obj, i) ==
    IF i > Len(os[n]) THEN <<>>
    ELSE <<[type |-> "call", by |-> n, to |-> os[n][i], obj |-> obj]>>
         \o outputFrom(os, n, obj, i + 1)
         \o input(os, os[n][i], obj)

\* for (let outputStream of this.outputStreams) outputStream.input(obj),
\* from the i-th recipient on: the calls made, depth first, in order. An
\* exception thrown inside a recipient's input() ends the loop.
outputFrom(os, n, obj, i) ==
    IF i > Len(os[n]) THEN <<>>
    ELSE LET made == <<[type |-> "call", by |-> n, to |-> os[n][i], obj |-> obj]>>
                     \o input(os, os[n][i], obj)
         IN  IF Threw(made) THEN made
             ELSE made \o outputFrom(os, n, obj, i + 1)

\* SourceStream.output
output(os, n, obj) == outputFrom(os, n, obj, 1)

\* PassthroughStream.input; FunctionStream.input for forEach's func(obj);
\* output(obj), with a func that may throw, and for map's output(func(obj)).
input(os, n, obj) ==
    IF kinds[n] = "throws" THEN <<[type |-> "throw", by |-> n, obj |-> obj]>>
    ELSE IF kinds[n] = "double" THEN output(os, n, 2 * obj)
    ELSE output(os, n, obj)

\* A plausible bug in pipe(): unshift instead of push.
pipeUnshift(os, n, r) ==
    [streams |-> [os EXCEPT ![n] = <<r>> \o @], ret |-> r]

\* SourceStream.pipe: push the recipient and return it.
pipe(os, n, r) ==
    [streams |-> [os EXCEPT ![n] = Append(@, r)], ret |-> r]

NumPipes == Len(SelectSeq(fanLog, LAMBDA e : e.type = "pipe"))

NumFanInputs == Len(SelectSeq(fanLog, LAMBDA e : e.type = "input"))

FanStart ==
    /\ outputStreams = [n \in Nodes |-> <<>>]
    /\ kinds = [n \in Nodes |-> "pass"]
    /\ pipeReturned = 0   \* no pipe() call yet
    /\ fanLog = <<>>

\* n.pipe(r). Graphs are acyclic by convention (a cycle makes input() recurse
\* without end), so links go from a lower to a higher node.
Pipe(n, r) ==
    /\ NumPipes < MaxPipes
    /\ n < r
    /\ LET res == pipe(outputStreams, n, r)
       IN  /\ outputStreams' = res.streams
           /\ pipeReturned' = res.ret
    /\ fanLog' = Append(fanLog, [type |-> "pipe", node |-> n, to |-> r])
    /\ UNCHANGED kinds

\* External code calls Entry.input(obj).
FanInput(obj) ==
    /\ NumFanInputs < MaxFanInputs
    /\ fanLog' = Append(fanLog, [type |-> "input", node |-> Entry, obj |-> obj])
                 \o input(outputStreams, Entry, obj)
    /\ UNCHANGED <<outputStreams, kinds, pipeReturned>>

\* A graph about to be built in which any forEach() node may have been given
\* a function that throws.
ThrowStart ==
    /\ outputStreams = [n \in Nodes |-> <<>>]
    /\ kinds \in [Nodes -> {"pass", "throws"}]
    /\ kinds[Entry] = "pass"
    /\ pipeReturned = 0
    /\ fanLog = <<>>

(***************************************************************************)
(* The README's in-line merge:                                             *)
(*   strmA.pipe(map(num => num * 2)).pipe(merge(strmA, strmB))             *)
(*        .pipe(forEach(num => console.log(num)))                          *)
(* JavaScript evaluates strmA.pipe(map) first, then the argument           *)
(* merge(strmA, strmB), which pipes strmA and strmB onto a new source,     *)
(* then pipes that source onto the map node and the forEach onto it.       *)
(***************************************************************************)

StrmA == 1

Doubler == 2

StrmB == 3

Merged == 4

Recorder == 5

MergeNodes == {StrmA, Doubler, StrmB, Merged, Recorder}

\* The numbers the README feeds.
MergeObjs == {123, 456, 789}

MaxMergeInputs == 3

RECURSIVE mergeFrom(_, _, _, _)
\* merge's loop: for (let stream of streams) stream.pipe(strm), from the i-th on.
mergeFrom(os, streams, strm, i) ==
    IF i > Len(streams) THEN os
    ELSE mergeFrom(pipe(os, streams[i], strm).streams, streams, strm, i + 1)

\* merge(...streams), strm being the source() it creates and returns.
merge(os, streams, strm) == [streams |-> mergeFrom(os, streams, strm, 1), ret |-> strm]

\* The links after the README's statement has run, and what its last pipe() returned.
MergeGraph ==
    LET g0 == [n \in MergeNodes |-> <<>>]
        g1 == pipe(g0, StrmA, Doubler)
        g2 == merge(g1.streams, <<StrmA, StrmB>>, Merged)
        g3 == pipe(g2.streams, g1.ret, g2.ret)
    IN  pipe(g3.streams, g3.ret, Recorder)

MergeStart ==
    /\ outputStreams = MergeGraph.streams
    /\ kinds = [n \in MergeNodes |-> IF n = Doubler THEN "double" ELSE "pass"]
    /\ pipeReturned = MergeGraph.ret
    /\ fanLog = <<>>

\* External code calls strmA.input(obj) or strmB.input(obj).
MergeInput(n, obj) ==
    /\ NumFanInputs < MaxMergeInputs
    /\ fanLog' = Append(fanLog, [type |-> "input", node |-> n, obj |-> obj])
                 \o input(outputStreams, n, obj)
    /\ UNCHANGED <<outputStreams, kinds, pipeReturned>>

(***************************************************************************)
(* StreamBatcher.  Its recipients are recorders: output(array) is the      *)
(* "emit" event of batchLog.  setTimeout and clearTimeout are the          *)
(* runtime's: a pending timeout fires at some later time unless cleared,   *)
(* never inside the call that set it.                                      *)
(*                                                                         *)
(* pipe() does not prevent cycles.  With feedback the graph is             *)
(*   batcher.pipe(spread()).pipe(filter(x => x === "a"))                   *)
(*          .pipe(map(x => "b")).pipe(batcher)                             *)
(* so that output(this.batch) calls the batcher's own input("b") for every *)
(* "a" of the array, before emitBatch goes on to this.batch = [].  Such a  *)
(* call is the "reentry" event of batchLog.                                *)
(***************************************************************************)

undefined == -1

null == 0

MaxBatchInputs == 5

\* The values a caller may give each option (undefined: option left out).
MaxItemsChoices == {undefined, 1, 2, 3}

IdleTimeoutChoices == {undefined, 0, 100}

DelayTimeoutChoices == {undefined, 100}

OptionChoices ==
    [maxItems : MaxItemsChoices, idleTimeout : IdleTimeoutChoices,
     delayTimeout : DelayTimeoutChoices]

\* The batcher's fields and the runtime's timers, as one record the methods
\* below transform.
Batcher ==
    [batch |-> batch, idleTimer |-> idleTimer, delayTimer |-> delayTimer,
     timers |-> timers, nextHandle |-> nextHandle, log |-> batchLog]

\* setTimeout(callback, ms): a new pending timeout; its handle is s.nextHandle.
setTimeout(s, kind, ms) ==
    [s EXCEPT !.timers = @ \cup {[id |-> s.nextHandle, kind |-> kind, ms |-> ms]},
              !.nextHandle = @ + 1,
              !.log = Append(@, [type |-> "set", kind |-> kind,
                                 id |-> s.nextHandle, ms |-> ms])]

\* clearTimeout(handle)
clearTimeout(s, h) ==
    [s EXCEPT !.timers = {t \in @ : t.id # h},
              !.log = Append(@, [type |-> "clear", id |-> h])]

RECURSIVE batcherInput(_, _, _)
RECURSIVE spreadBack(_, _)

\* spread()'s loop, for (let item of obj) output(item), from the i-th item on,
\* with the filter, the map and the batcher behind it. obj is the array
\* this.batch itself, so the loop meets the items input() pushes meanwhile.
spreadBack(s, i) ==
    IF i > Len(s.batch) THEN s
    ELSE IF s.batch[i] = "a"
         THEN spreadBack(batcherInput(options,
                  [s EXCEPT !.log = Append(@, [type |-> "reentry", obj |-> "b"])], "b"),
                  i + 1)
         ELSE spreadBack(s, i + 1)

\* What the calls of output(this.batch) to the recipients do to the batcher.
recipients(s) == IF feedback THEN spreadBack(s, 1) ELSE s

\* A plausible bug in the constructor: the default is left out.
constructorNoDefault(opts) ==
    IF opts.idleTimeout # undefined /\ opts.delayTimeout # undefined
    THEN [threw |-> TRUE, options |-> opts]
    ELSE [threw |-> FALSE, options |-> opts]

\* A plausible bug in the constructor: a timeout is refused with maxItems too.
constructorRefusesMore(opts) ==
    IF (opts.idleTimeout # undefined /\ opts.delayTimeout # undefined)
       \/ (opts.maxItems # undefined /\ opts.delayTimeout # undefined)
    THEN [threw |-> TRUE, options |-> opts]
    ELSE IF opts.maxItems = undefined /\ opts.idleTimeout = undefined
            /\ opts.delayTimeout = undefined
         THEN [threw |-> FALSE, options |-> [opts EXCEPT !.idleTimeout = 0]]
         ELSE [threw |-> FALSE, options |-> opts]

\* A plausible bug in the constructor: the default is applied whenever no
\* timeout is given, maxItems or not.
constructorDefaultsWithMaxItems(opts) ==
    IF opts.idleTimeout # undefined /\ opts.delayTimeout # undefined
    THEN [threw |-> TRUE, options |-> opts]
    ELSE IF opts.idleTimeout = undefined /\ opts.delayTimeout = undefined
         THEN [threw |-> FALSE, options |-> [opts EXCEPT !.idleTimeout = 0]]
         ELSE [threw |-> FALSE, options |-> opts]

\* StreamBatcher.constructor: throw on idleTimeout with delayTimeout; default to
\* idleTimeout = 0 when no option is given.
constructor(opts) ==
    IF opts.idleTimeout # undefined /\ opts.delayTimeout # undefined
    THEN [threw |-> TRUE, options |-> opts]
    ELSE IF opts.maxItems = undefined /\ opts.idleTimeout = undefined
            /\ opts.delayTimeout = undefined
         THEN [threw |-> FALSE, options |-> [opts EXCEPT !.idleTimeout = 0]]
         ELSE [threw |-> FALSE, options |-> opts]

\* A plausible bug in emitBatch: the buffer is not reset after the emission.
emitBatchKeepsBuffer(s) ==
    LET s1 == IF s.delayTimer # null
              THEN [clearTimeout(s, s.delayTimer) EXCEPT !.delayTimer = null]
              ELSE s
    IN  IF Len(s1.batch) = 0 THEN s1
        ELSE [s1 EXCEPT !.log = Append(@, [type |-> "emit", items |-> s1.batch])]

\* A plausible bug in emitBatch: the armed delay timer is left to fire.
emitBatchKeepsDelayTimer(s) ==
    IF Len(s.batch) = 0 THEN s
    ELSE [s EXCEPT !.log = Append(@, [type |-> "emit", items |-> s.batch]),
                   !.batch = <<>>]

\* A plausible bug in emitBatch: the test for an empty buffer is left out.
emitBatchEmitsEmpty(s) ==
    LET s1 == IF s.delayTimer # null
              THEN [clearTimeout(s, s.delayTimer) EXCEPT !.delayTimer = null]
              ELSE s
    IN  [recipients([s1 EXCEPT !.log = Append(@, [type |-> "emit",
                                                  items |-> s1.batch])])
            EXCEPT !.batch = <<>>]

\* StreamBatcher.emitBatch: this.output(this.batch), then this.batch = [].
emitBatch(s) ==
    LET s1 == IF s.delayTimer # null
              THEN [clearTimeout(s, s.delayTimer) EXCEPT !.delayTimer = null]
              ELSE s
    IN  IF Len(s1.batch) = 0 THEN s1
        ELSE [recipients([s1 EXCEPT !.log = Append(@, [type |-> "emit",
                                                       items |-> s1.batch])])
                 EXCEPT !.batch = <<>>]

\* The idle timer's callback: this.idleTimer = null; this.emitBatch()
idleCallback(s) == emitBatch([s EXCEPT !.idleTimer = null])

\* The delay timer's callback: this.delayTimer = null; this.emitBatch()
delayCallback(s) == emitBatch([s EXCEPT !.delayTimer = null])

\* A plausible bug in input(): > instead of >= in the maxItems test.
batcherInputAboveMax(opts, s, obj) ==
    LET s1 == IF s.idleTimer # null
              THEN [clearTimeout(s, s.idleTimer) EXCEPT !.idleTimer = null]
              ELSE s
        s2 == [s1 EXCEPT !.batch = Append(@, obj)]
    IN  IF opts.maxItems # undefined /\ Len(s2.batch) > opts.maxItems
        THEN emitBatch(s2)
        ELSE IF opts.idleTimeout # undefined
        THEN [setTimeout(s2, "idle", opts.idleTimeout) EXCEPT !.idleTimer = s2.nextHandle]
        ELSE IF opts.delayTimeout # undefined /\ s2.delayTimer = null
        THEN [setTimeout(s2, "delay", opts.delayTimeout) EXCEPT !.delayTimer = s2.nextHandle]
        ELSE s2

\* A plausible bug in input(): the armed idle timer is not cleared.
batcherInputKeepsIdleTimer(opts, s, obj) ==
    LET s2 == [s EXCEPT !.batch = Append(@, obj)]
    IN  IF opts.maxItems # undefined /\ Len(s2.batch) >= opts.maxItems
        THEN emitBatch(s2)
        ELSE IF opts.idleTimeout # undefined
        THEN [setTimeout(s2, "idle", opts.idleTimeout) EXCEPT !.idleTimer = s2.nextHandle]
        ELSE IF opts.delayTimeout # undefined /\ s2.delayTimer = null
        THEN [setTimeout(s2, "delay", opts.delayTimeout) EXCEPT !.delayTimer = s2.nextHandle]
        ELSE s2

\* A plausible bug in input(): the delay timer is armed again by every input.
batcherInputRearmsDelay(opts, s, obj) ==
    LET s1 == IF s.idleTimer # null
              THEN [clearTimeout(s, s.idleTimer) EXCEPT !.idleTimer = null]
              ELSE s
        s2 == [s1 EXCEPT !.batch = Append(@, obj)]
    IN  IF opts.maxItems # undefined /\ Len(s2.batch) >= opts.maxItems
        THEN emitBatch(s2)
        ELSE IF opts.idleTimeout # undefined
        THEN [setTimeout(s2, "idle", opts.idleTimeout) EXCEPT !.idleTimer = s2.nextHandle]
        ELSE IF opts.delayTimeout # undefined
        THEN [setTimeout(s2, "delay", opts.delayTimeout) EXCEPT !.delayTimer = s2.nextHandle]
        ELSE s2

\* StreamBatcher.input
batcherInput(opts, s, obj) ==
    LET s1 == IF s.idleTimer # null
              THEN [clearTimeout(s, s.idleTimer) EXCEPT !.idleTimer = null]
              ELSE s
        s2 == [s1 EXCEPT !.batch = Append(@, obj)]
    IN  IF opts.maxItems # undefined /\ Len(s2.batch) >= opts.maxItems
        THEN emitBatch(s2)
        ELSE IF opts.idleTimeout # undefined
        THEN [setTimeout(s2, "idle", opts.idleTimeout) EXCEPT !.idleTimer = s2.nextHandle]
        ELSE IF opts.delayTimeout # undefined /\ s2.delayTimer = null
        THEN [setTimeout(s2, "delay", opts.delayTimeout) EXCEPT !.delayTimer = s2.nextHandle]
        ELSE s2

NumBatchInputs == Len(SelectSeq(batchLog, LAMBDA e : e.type = "input"))

\* The batcher's fields and the timers become those of record s.
BatcherBecomes(s) ==
    /\ batch' = s.batch
    /\ idleTimer' = s.idleTimer
    /\ delayTimer' = s.delayTimer
    /\ timers' = s.timers
    /\ nextHandle' = s.nextHandle
    /\ batchLog' = s.log

\* Before new StreamBatcher(options).
BatcherNew ==
    /\ constructed = "new"
    /\ options = [maxItems |-> undefined, idleTimeout |-> undefined,
                  delayTimeout |-> undefined]
    /\ batch = <<>>
    /\ idleTimer = null
    /\ delayTimer = null
    /\ timers = {}
    /\ nextHandle = 1
    /\ batchLog = <<>>

BatchStart == feedback = FALSE /\ upstream = "direct" /\ BatcherNew

\* new StreamBatcher(opts), or batch(opts); batch() passes {}.
Construct(opts) ==
    /\ constructed = "new"
    /\ LET res == constructor(opts)
       IN  /\ constructed' = IF res.threw THEN "threw" ELSE "ok"
           /\ options' = res.options
    /\ batchLog' = Append(batchLog, [type |-> "new", opts |-> opts])
    /\ UNCHANGED <<batch, idleTimer, delayTimer, timers, nextHandle, feedback, upstream>>

\* A producer calls input(obj) on the batcher.
BatchInput(obj) ==
    /\ constructed = "ok"
    /\ NumBatchInputs < MaxBatchInputs
    /\ BatcherBecomes(batcherInput(options,
           [Batcher EXCEPT !.log = Append(@, [type |-> "input", obj |-> obj])], obj))
    /\ UNCHANGED <<constructed, options, feedback, upstream>>

\* The runtime fires pending timeout t and runs its callback.
TimerFires(t) ==
    /\ t \in timers
    /\ LET s == [Batcher EXCEPT !.timers = @ \ {t},
                                !.log = Append(@, [type |-> "fire", kind |-> t.kind,
                                                   id |-> t.id])]
       IN  BatcherBecomes(IF t.kind = "idle" THEN idleCallback(s) ELSE delayCallback(s))
    /\ UNCHANGED <<constructed, options, feedback, upstream>>

MaxFlushCalls == 2

\* The inputs taken in the runs in which emitBatch() is also called directly.
MaxFlushInputs == 3

NumFlushCalls == Len(SelectSeq(batchLog, LAMBDA e : e.type = "flush"))

\* External code calls emitBatch(), which is a public method.
Flush ==
    /\ constructed = "ok"
    /\ NumFlushCalls < MaxFlushCalls
    /\ BatcherBecomes(emitBatch([Batcher EXCEPT !.log = Append(@, [type |-> "flush"])]))
    /\ UNCHANGED <<constructed, options, feedback, upstream>>

\* The graph is built with or without the feedback path.
CycleStart == feedback \in BOOLEAN /\ upstream = "direct" /\ BatcherNew

\* The configurations taken with the feedback path: with maxItems an input()
\* made inside output() may call emitBatch again on the array being emitted,
\* and that recursion need not end.
CycleOptionChoices ==
    {opts \in OptionChoices : feedback => opts.maxItems = undefined}

(***************************************************************************)
(* The README's loops: for (let i = 0; i < N; i++) strm.input(i), with the *)
(* batcher piped onto strm directly (the batch() example) or behind        *)
(* filter(x => x % 7 !== 0) and map(x => x * 2) (the usage example).       *)
(* Timers may fire between two turns of the loop when the loop is spread   *)
(* over several tasks; in the README's own run none does.                  *)
(***************************************************************************)

MaxBurst == 10

UpstreamChoices == {"direct", "filterMap"}

\* The configurations of the two examples, and smaller maxItems.
BurstOptionChoices ==
    [maxItems : {1, 2, 3, 4}, idleTimeout : {100}, delayTimeout : {undefined}]

NumFeeds == Len(SelectSeq(batchLog, LAMBDA e : e.type = "feed"))

\* The node before the batcher calls batcher.input(obj).
deliver(opts, s, obj) ==
    batcherInput(opts, [s EXCEPT !.log = Append(@, [type |-> "input", obj |-> obj])], obj)

\* strm.input(x): straight to the batcher, or through the filter (which drops
\* the multiples of 7) and the map (which doubles).
upstreamInput(opts, s, x) ==
    IF upstream = "direct" THEN deliver(opts, s, x)
    ELSE IF x % 7 # 0 THEN deliver(opts, s, x * 2)
    ELSE s

BurstStart == feedback = FALSE /\ upstream \in UpstreamChoices /\ BatcherNew

\* One turn of the loop: strm.input(i), i the number of turns made so far.
Feed ==
    /\ constructed = "ok"
    /\ NumFeeds < MaxBurst
    /\ BatcherBecomes(upstreamInput(options,
           [Batcher EXCEPT !.log = Append(@, [type |-> "feed", obj |-> NumFeeds])],
           NumFeeds))
    /\ UNCHANGED <<constructed, options, feedback, upstream>>

(***************************************************************************)
(* SynchroniserStream around a wrapped node strm.  An item is a record     *)
(* [id, n]: id is its arrival number and n the number of outputs strm      *)
(* makes for it (1 for map; 0 or 1 for filter, by the predicate; the       *)
(* array's length for spread).  A synchronous strm makes them inside its   *)
(* input(); an asynchronous one makes each in a later continuation, and    *)
(* the continuations of its invocations run in any interleaving.  The      *)
(* synchroniser's recipients are recorders: output(obj) is the "out"       *)
(* event of syncLog.                                                       *)
(***************************************************************************)

MaxSyncInputs == 4

WrappedChoices == {"map", "filter", "spread"}

\* How many outputs strm may make for one input.
OutputCounts(w) ==
    IF w = "map" THEN {1} ELSE IF w = "filter" THEN {0, 1} ELSE {0, 1, 2}

Synchroniser ==
    [buffer |-> buffer, pending |-> pending, running |-> running, log |-> syncLog]

RECURSIVE next(_)
RECURSIVE emitInside(_, _, _)

\* A plausible bug in next(): pop() instead of shift().
nextPops(s) ==
    IF s.pending \/ Len(s.buffer) = 0 THEN s
    ELSE LET obj == s.buffer[Len(s.buffer)]
             s1 == [s EXCEPT !.pending = TRUE,
                             !.buffer = SubSeq(@, 1, Len(@) - 1),
                             !.log = Append(@, [type |-> "dispatch", item |-> obj])]
         IN  IF strmAsync
             THEN [s1 EXCEPT !.running = Append(@, [item |-> obj, made |-> 0])]
             ELSE emitInside(s1, obj, 1)

\* A plausible bug in the observer: this.next() is left out.
observerNoNext(s, out) ==
    [s EXCEPT !.log = Append(@, [type |-> "out", id |-> out.id, k |-> out.k]),
              !.pending = FALSE]

\* The observer piped onto strm: this.output(obj); this.pending = false; this.next()
observer(s, out) ==
    next([s EXCEPT !.log = Append(@, [type |-> "out", id |-> out.id, k |-> out.k]),
                   !.pending = FALSE])

\* A synchronous strm making its outputs k..n for item obj inside strm.input(obj).
emitInside(s, obj, k) ==
    IF k > obj.n THEN s
    ELSE emitInside(observer(s, [id |-> obj.id, k |-> k]), obj, k + 1)

\* strm.input(obj): an asynchronous strm suspends; a synchronous one emits.
strmInput(s, obj) ==
    LET s1 == [s EXCEPT !.log = Append(@, [type |-> "dispatch", item |-> obj])]
    IN  IF strmAsync
        THEN [s1 EXCEPT !.running = Append(@, [item |-> obj, made |-> 0])]
        ELSE emitInside(s1, obj, 1)

\* SynchroniserStream.next
next(s) ==
    IF s.pending \/ Len(s.buffer) = 0 THEN s
    ELSE strmInput([s EXCEPT !.pending = TRUE, !.buffer = Tail(@)], Head(s.buffer))

\* SynchroniserStream.input
synchroniserInput(s, obj) == next([s EXCEPT !.buffer = Append(@, obj)])

NumSyncInputs == Len(SelectSeq(syncLog, LAMBDA e : e.type = "in"))

SynchroniserBecomes(s) ==
    /\ buffer' = s.buffer
    /\ pending' = s.pending
    /\ running' = s.running
    /\ syncLog' = s.log

\* sync(strm) has been called; no input yet.
SyncFields ==
    /\ buffer = <<>>
    /\ pending = FALSE
    /\ running = <<>>
    /\ syncLog = <<>>

SyncIdle == wrapped = "map" /\ strmAsync = FALSE /\ SyncFields

SyncStart == wrapped \in WrappedChoices /\ strmAsync \in BOOLEAN /\ SyncFields

\* A producer calls input(obj) on the synchroniser; strm will make n outputs for obj.
SyncInput(n) ==
    /\ NumSyncInputs < MaxSyncInputs
    /\ LET obj == [id |-> NumSyncInputs + 1, n |-> n]
       IN  SynchroniserBecomes(synchroniserInput(
               [Synchroniser EXCEPT !.log = Append(@, [type |-> "in", item |-> obj])], obj))
    /\ UNCHANGED <<wrapped, strmAsync>>

\* A suspended invocation of an asynchronous strm resumes and makes its next
\* output; an invocation with no output left to make has ended.
StrmEmits(i) ==
    /\ i \in 1..Len(running)
    /\ running[i].made < running[i].item.n
    /\ LET r == running[i]
           rest == IF r.made + 1 = r.item.n
                   THEN SubSeq(running, 1, i - 1) \o SubSeq(running, i + 1, Len(running))
                   ELSE [running EXCEPT ![i].made = @ + 1]
       IN  SynchroniserBecomes(observer([Synchroniser EXCEPT !.running = rest],
                                        [id |-> r.item.id, k |-> r.made + 1]))
    /\ UNCHANGED <<wrapped, strmAsync>>

(***************************************************************************)
(* Specifications: one per component, the others idle.                     *)
(***************************************************************************)

FanInit == FanStart /\ BatchStart /\ SyncIdle

FanNext ==
    \/ /\ \E n \in Nodes, r \in Nodes : Pipe(n, r)
       /\ UNCHANGED <<batchVars, syncVars>>
    \/ /\ \E obj \in Objs : FanInput(obj)
       /\ UNCHANGED <<batchVars, syncVars>>

FanSpec == FanInit /\ [][FanNext]_vars

BatchInit == FanStart /\ BatchStart /\ SyncIdle

BatchNext ==
    \/ /\ \E opts \in OptionChoices : Construct(opts)
       /\ UNCHANGED <<fanVars, syncVars>>
    \/ /\ \E obj \in Objs : BatchInput(obj)
       /\ UNCHANGED <<fanVars, syncVars>>
    \/ /\ \E t \in timers : TimerFires(t)
       /\ UNCHANGED <<fanVars, syncVars>>

BatchSpec == BatchInit /\ [][BatchNext]_vars

SyncInit == FanStart /\ BatchStart /\ SyncStart

SyncNext ==
    \/ /\ \E n \in OutputCounts(wrapped) : SyncInput(n)
       /\ UNCHANGED <<fanVars, batchVars>>
    \/ /\ \E i \in 1..Len(running) : StrmEmits(i)
       /\ UNCHANGED <<fanVars, batchVars>>

SyncSpec == SyncInit /\ [][SyncNext]_vars

ThrowInit == ThrowStart /\ BatchStart /\ SyncIdle

ThrowSpec == ThrowInit /\ [][FanNext]_vars

MergeInit == MergeStart /\ BatchStart /\ SyncIdle

MergeNext ==
    /\ \E n \in {StrmA, StrmB}, obj \in MergeObjs : MergeInput(n, obj)
    /\ UNCHANGED <<batchVars, syncVars>>

MergeSpec == MergeInit /\ [][MergeNext]_vars

FlushInit == FanStart /\ BatchStart /\ SyncIdle

FlushNext ==
    \/ /\ \E opts \in OptionChoices : Construct(opts)
       /\ UNCHANGED <<fanVars, syncVars>>
    \/ /\ NumBatchInputs < MaxFlushInputs
       /\ \E obj \in Objs : BatchInput(obj)
       /\ UNCHANGED <<fanVars, syncVars>>
    \/ /\ \E t \in timers : TimerFires(t)
       /\ UNCHANGED <<fanVars, syncVars>>
    \/ /\ Flush
       /\ UNCHANGED <<fanVars, syncVars>>

FlushSpec == FlushInit /\ [][FlushNext]_vars

CycleInit == FanStart /\ CycleStart /\ SyncIdle

CycleNext ==
    \/ /\ \E opts \in CycleOptionChoices : Construct(opts)
       /\ UNCHANGED <<fanVars, syncVars>>
    \/ /\ \E obj \in Objs : BatchInput(obj)
       /\ UNCHANGED <<fanVars, syncVars>>
    \/ /\ \E t \in timers : TimerFires(t)
       /\ UNCHANGED <<fanVars, syncVars>>

CycleSpec == CycleInit /\ [][CycleNext]_vars

BurstInit == FanStart /\ BurstStart /\ SyncIdle

BurstNext ==
    \/ /\ \E opts \in BurstOptionChoices : Construct(opts)
       /\ UNCHANGED <<fanVars, syncVars>>
    \/ /\ Feed
       /\ UNCHANGED <<fanVars, syncVars>>
    \/ /\ \E t \in timers : TimerFires(t)
       /\ UNCHANGED <<fanVars, syncVars>>

BurstSpec == BurstInit /\ [][BurstNext]_vars

\* sync(strm) around a strm that makes one output per input (map, mapAsync) or
\* at most one (filter, filterAsync).
SyncLiveStart ==
    wrapped \in {"map", "filter"} /\ strmAsync \in BOOLEAN /\ SyncFields

SyncLiveInit == FanStart /\ BatchStart /\ SyncLiveStart

\* A suspended invocation of strm that has an output left to make resumes.
StrmResumes ==
    /\ \E i \in 1..Len(running) : StrmEmits(i)
    /\ UNCHANGED <<fanVars, batchVars>>

\* The synchroniser with a strm whose pending outputs are made in the end: the
\* promise a mapAsync awaits settles, and the event loop runs the continuation
\* of a settled promise. Nothing obliges the producers to call input().
SyncLiveSpec == SyncLiveInit /\ [][SyncNext]_vars /\ WF_vars(StrmResumes)

(***************************************************************************)
(* Claims about the fan-out.                                               *)
(***************************************************************************)

\* The recipients registered on node n by the pipe() calls before event p.
RegsAt(n, p) ==
    LET ps == SelectSeq(SubSeq(fanLog, 1, p - 1),
                        LAMBDA e : e.type = "pipe" /\ e.node = n)
    IN  [i \in 1..Len(ps) |-> ps[i].to]

IsInputTo(e, n) ==
    \/ e.type = "input" /\ e.node = n
    \/ e.type = "call" /\ e.to = n

RECURSIVE ExpectedCalls(_, _)
\* What the claim asks of node n for the inputs it got among events 1..p: for
\* each, one call per registration, in registration order, with that object.
ExpectedCalls(n, p) ==
    IF p = 0 THEN <<>>
    ELSE ExpectedCalls(n, p - 1)
         \o (IF IsInputTo(fanLog[p], n)
             THEN [i \in 1..Len(RegsAt(n, p)) |-> <<RegsAt(n, p)[i], fanLog[p].obj>>]
             ELSE <<>>)

\* The calls node n's output() made, as <<recipient, object>>.
CallsBy(n) ==
    LET cs == SelectSeq(fanLog, LAMBDA e : e.type = "call" /\ e.by = n)
    IN  [i \in 1..Len(cs) |-> <<cs[i].to, cs[i].obj>>]

\* The objects fed into Entry, and the objects Entry delivered to r.
Fed ==
    LET es == SelectSeq(fanLog, LAMBDA e : e.type = "input")
    IN  [i \in 1..Len(es) |-> es[i].obj]

FromEntry(r) ==
    LET cs == SelectSeq(fanLog, LAMBDA e : e.type = "call" /\ e.by = Entry /\ e.to = r)
    IN  [i \in 1..Len(cs) |-> cs[i].obj]

\* r was piped onto Entry exactly once, and before the first input.
RegisteredOnceUpFront(r) ==
    /\ Len(SelectSeq(outputStreams[Entry], LAMBDA x : x = r)) = 1
    /\ \A p \in 1..Len(fanLog) : \A q \in 1..Len(fanLog) :
           (fanLog[p].type = "pipe" /\ fanLog[p].node = Entry /\ fanLog[p].to = r
            /\ fanLog[q].type = "input") => p < q

\* C1: every emission of a node calls input() of each registered recipient once
\* per registration, in registration order, with the emitted object; so a
\* recipient piped once onto the Entry Node before the inputs receives exactly
\* the sequence of objects fed, in order.
C1_FanOutExactlyOnceInOrder ==
    /\ \A n \in Nodes : CallsBy(n) = ExpectedCalls(n, Len(fanLog))
    /\ \A r \in Nodes : RegisteredOnceUpFront(r) => FromEntry(r) = Fed

C1_Witness ==
    /\ outputStreams[Entry] = <<2, 3>>
    /\ RegisteredOnceUpFront(2) /\ RegisteredOnceUpFront(3)
    /\ Fed = <<"a", "b">>
    /\ FromEntry(3) = <<"a", "b">>

\* C10: pipe(recipient) appends the recipient to the end of the node's list,
\* leaves the earlier recipients in place and returns the recipient; no step of
\* any kind removes or reorders a link.
C10_PipeAppendsAndReturns ==
    [][/\ \A n \in Nodes :
            /\ Len(outputStreams'[n]) >= Len(outputStreams[n])
            /\ SubSeq(outputStreams'[n], 1, Len(outputStreams[n])) = outputStreams[n]
       /\ (Len(fanLog') = Len(fanLog) + 1 /\ fanLog'[Len(fanLog')].type = "pipe") =>
            LET e == fanLog'[Len(fanLog')]
            IN  /\ Len(outputStreams'[e.node]) = Len(outputStreams[e.node]) + 1
                /\ outputStreams'[e.node][Len(outputStreams'[e.node])] = e.to
                /\ \A m \in Nodes \ {e.node} : outputStreams'[m] = outputStreams[m]
                /\ pipeReturned' = e.to]_vars

C10_Witness ==
    /\ Len(outputStreams[Entry]) >= 2
    /\ pipeReturned = outputStreams[Entry][Len(outputStreams[Entry])]
    /\ pipeReturned # outputStreams[Entry][1]
    /\ Len(fanLog) >= 4
    /\ fanLog[Len(fanLog) - 1].type = "pipe"
    /\ fanLog[1].type = "input"

(***************************************************************************)
(* Claims about the StreamBatcher, stated over batchLog.                   *)
(***************************************************************************)

\* The options the caller passed to the constructor.
Requested == batchLog[1].opts

BatchPositions(type) == {p \in 1..Len(batchLog) : batchLog[p].type = type}

\* The position of the last emission before p (0: none).
LastEmitBefore(p) ==
    LET ps == {q \in BatchPositions("emit") : q < p}
    IN  IF ps = {} THEN 0 ELSE CHOOSE q \in ps : \A r \in ps : r <= q

\* The objects of the input() calls at positions lo+1..hi, in order.
InputsBetween(lo, hi) ==
    LET es == SelectSeq(SubSeq(batchLog, lo + 1, hi), LAMBDA e : e.type = "input")
    IN  [i \in 1..Len(es) |-> es[i].obj]

\* The objects received so far and not emitted.
UnflushedNow == InputsBetween(LastEmitBefore(Len(batchLog) + 1), Len(batchLog))

\* The objects received up to event p and not emitted before it.
Unflushed(p) == InputsBetween(LastEmitBefore(p), p)

\* The last event of the handler that starts at p (an input() call or a timer
\* firing): the events after p up to the next call of the environment.
HandlerEnd(p) ==
    LET starts == {q \in BatchPositions("input") \cup BatchPositions("fire") : q > p}
    IN  IF starts = {} THEN Len(batchLog)
        ELSE (CHOOSE q \in starts : \A r \in starts : q <= r) - 1

\* The events of kind type made inside the handler that starts at p.
InHandler(p, type) == {q \in BatchPositions(type) : p < q /\ q <= HandlerEnd(p)}

\* The input() call or timer firing inside which event q was made.
HandlerOf(q) ==
    LET starts == {p \in BatchPositions("input") \cup BatchPositions("fire") : p < q}
    IN  CHOOSE p \in starts : \A r \in starts : r <= p

\* C4: emitBatch never emits an empty array, and the buffer holds exactly the
\* inputs received after the last emission: it is empty once a batch has been
\* emitted, until the next input is appended.
C4_NoEmptyBatchAndBufferCleared ==
    /\ \A q \in BatchPositions("emit") : Len(batchLog[q].items) > 0
    /\ batch = UnflushedNow
    /\ (Len(batchLog) > 0 /\ batchLog[Len(batchLog)].type = "emit") => batch = <<>>

C4_Witness ==
    /\ Cardinality(BatchPositions("emit")) >= 2
    /\ batchLog[Len(batchLog)].type = "emit"
    /\ batchLog[Len(batchLog) - 1].type = "fire"
    /\ batch = <<>>

\* C5: with maxItems = k, an input() call emits a batch exactly when it brings
\* the unflushed inputs to k, the batch is those k inputs in arrival order, and
\* the buffer is empty afterwards; so k inputs in a row from an empty buffer
\* give one flush, inside the k-th call, and none inside the first k-1.
C5_MaxItemsFlushInsideKthInput ==
    (constructed = "ok" /\ options.maxItems # undefined) =>
        /\ \A p \in BatchPositions("input") :
              /\ Len(Unflushed(p)) <= options.maxItems
              /\ Len(Unflushed(p)) < options.maxItems => InHandler(p, "emit") = {}
              /\ Len(Unflushed(p)) = options.maxItems =>
                    /\ Cardinality(InHandler(p, "emit")) = 1
                    /\ \A q \in InHandler(p, "emit") : batchLog[q].items = Unflushed(p)
        /\ (batchLog[Len(batchLog)].type = "emit") => batch = <<>>

C5_Witness ==
    /\ constructed = "ok"
    /\ options.maxItems = 3
    /\ Len(batchLog) = 5
    /\ batchLog[5].type = "emit"
    /\ batchLog[5].items = <<"a", "b", "a">>
    /\ batch = <<>>

\* What C6, C7 and C8 share: every timer firing emits one batch, the inputs
\* received since the last emission, in arrival order.
EveryFiringFlushesAll ==
    \A q \in BatchPositions("fire") :
        /\ q < Len(batchLog)
        /\ batchLog[q + 1].type = "emit"
        /\ batchLog[q + 1].items = Unflushed(q)
        /\ InHandler(q, "emit") = {q + 1}

\* The timer that fires at q was set inside the last input() call before q.
FiredTimerSetByLastInput(q) ==
    LET ins == {p \in BatchPositions("input") : p < q}
    IN  /\ ins # {}
        /\ LET last == CHOOSE p \in ins : \A r \in ins : r <= p
           IN  \E x \in InHandler(last, "set") : batchLog[x].id = batchLog[q].id

\* C6: with idleTimeout and no maxItems, a batch is emitted only when a timer
\* fires, the timer that fires is the one the last input armed, and the batch
\* holds every input since the last emission, in arrival order; so a run of
\* inputs each arriving before the previous timer fired gives one flush, and
\* an input after a firing starts a new batch.
C6_IdleFlushAfterLastInput ==
    (constructed = "ok" /\ options.idleTimeout # undefined
     /\ options.maxItems = undefined) =>
        /\ \A q \in BatchPositions("emit") : batchLog[HandlerOf(q)].type = "fire"
        /\ \A q \in BatchPositions("fire") :
              batchLog[q].kind = "idle" /\ FiredTimerSetByLastInput(q)
        /\ EveryFiringFlushesAll

C6_Witness ==
    /\ constructed = "ok"
    /\ options = [maxItems |-> undefined, idleTimeout |-> 100, delayTimeout |-> undefined]
    /\ Cardinality(BatchPositions("emit")) = 2
    /\ batchLog[Len(batchLog)].type = "emit"
    /\ batchLog[Len(batchLog)].items = <<"b">>
    /\ \E q \in BatchPositions("emit") : batchLog[q].items = <<"a", "b", "a">>

\* The delay-timer behaviour C7 describes.
DelayTimerBehaviour ==
    /\ \A p \in BatchPositions("input") :
          /\ Len(Unflushed(p)) = 1 =>
                /\ Cardinality(InHandler(p, "set")) = 1
                /\ \A x \in InHandler(p, "set") : batchLog[x].kind = "delay"
          /\ Len(Unflushed(p)) > 1 => InHandler(p, "set") = {}
          /\ InHandler(p, "clear") = {}
    /\ \A q \in BatchPositions("fire") : batchLog[q].kind = "delay"
    /\ EveryFiringFlushesAll

\* C7 as claimed: every batcher configured with delayTimeout behaves so.
C7_AnyDelayConfig ==
    (constructed = "ok" /\ options.delayTimeout # undefined) => DelayTimerBehaviour

\* C7 as amended: with delayTimeout and no maxItems, the first input into an
\* empty buffer arms the delay timer, later inputs neither clear nor re-arm
\* it, its firing emits every input since it was armed, in arrival order, and
\* the first input after that arms a new one.
C7_DelayOnlyFixedDeadline ==
    (constructed = "ok" /\ options.delayTimeout # undefined
     /\ options.maxItems = undefined) =>
        /\ DelayTimerBehaviour
        /\ \A q \in BatchPositions("emit") : batchLog[HandlerOf(q)].type = "fire"

C7_Witness ==
    /\ constructed = "ok"
    /\ options = [maxItems |-> undefined, idleTimeout |-> undefined, delayTimeout |-> 100]
    /\ Cardinality(BatchPositions("fire")) = 1
    /\ Cardinality(BatchPositions("set")) = 2
    /\ \E q \in BatchPositions("emit") : batchLog[q].items = <<"a", "b", "a">>
    /\ batch = <<"b">>

\* C8: a batcher built with no options has idleTimeout = 0: every input arms a
\* 0 ms idle timer, no batch is emitted inside input(), and a burst of inputs
\* with no firing in between is emitted whole, in order, by the one timer
\* then pending.
C8_NoOptionsIsIdleZero ==
    (constructed = "ok"
     /\ Requested = [maxItems |-> undefined, idleTimeout |-> undefined,
                     delayTimeout |-> undefined]) =>
        /\ options = [maxItems |-> undefined, idleTimeout |-> 0, delayTimeout |-> undefined]
        /\ \A p \in BatchPositions("input") :
              /\ InHandler(p, "emit") = {}
              /\ \E x \in InHandler(p, "set") :
                    batchLog[x].kind = "idle" /\ batchLog[x].ms = 0
        /\ batch # <<>> => Cardinality(timers) = 1
        /\ batch = <<>> => timers = {}
        /\ \A q \in BatchPositions("fire") : FiredTimerSetByLastInput(q)
        /\ EveryFiringFlushesAll

C8_Witness ==
    /\ constructed = "ok"
    /\ Requested = [maxItems |-> undefined, idleTimeout |-> undefined,
                    delayTimeout |-> undefined]
    /\ Cardinality(BatchPositions("emit")) = 1
    /\ batchLog[Len(batchLog)].type = "emit"
    /\ batchLog[Len(batchLog)].items = <<"a", "b", "b">>

\* C9: the constructor throws exactly when both idleTimeout and delayTimeout
\* are given, with or without maxItems; then there is no node to feed.
C9_BothTimeoutsRejected ==
    constructed # "new" =>
        IF Requested.idleTimeout # undefined /\ Requested.delayTimeout # undefined
        THEN constructed = "threw" /\ Len(batchLog) = 1 /\ batch = <<>> /\ timers = {}
        ELSE constructed = "ok"

C9_Witness ==
    /\ constructed = "threw"
    /\ Requested = [maxItems |-> 2, idleTimeout |-> 0, delayTimeout |-> 100]

(***************************************************************************)
(* Claims about the SynchroniserStream, stated over syncLog.               *)
(***************************************************************************)

SyncPositions(type) == {p \in 1..Len(syncLog) : syncLog[p].type = type}

\* The ids of the items handed to input(), of the items dispatched to strm and
\* of the outputs re-emitted, each in the order of the calls.
ArrivalOrder ==
    LET es == SelectSeq(syncLog, LAMBDA e : e.type = "in")
    IN  [i \in 1..Len(es) |-> es[i].item.id]

DispatchOrder ==
    LET es == SelectSeq(syncLog, LAMBDA e : e.type = "dispatch")
    IN  [i \in 1..Len(es) |-> es[i].item.id]

OutputOrder ==
    LET es == SelectSeq(syncLog, LAMBDA e : e.type = "out")
    IN  [i \in 1..Len(es) |-> es[i].id]

\* The items dispatched to strm before event p that had made no output by then.
InFlightAt(p) ==
    {syncLog[d].item.id : d \in {d \in SyncPositions("dispatch") : d < p}}
    \ {syncLog[o].id : o \in {o \in SyncPositions("out") : o < p}}

\* C2: strm.input is never called while an item dispatched earlier has made no
\* output yet, and at most one such item exists in any state.
C2_AtMostOneInFlight ==
    /\ \A p \in SyncPositions("dispatch") : InFlightAt(p) = {}
    /\ Cardinality(InFlightAt(Len(syncLog) + 1)) <= 1

\* C3: around a strm that makes exactly one output per input, items are
\* dispatched in arrival order, each only after the output of the one before
\* it has been re-emitted, and the outputs come in arrival order.
C3_OneOutputKeepsFifoOrder ==
    wrapped = "map" =>
        /\ Len(DispatchOrder) <= Len(ArrivalOrder)
        /\ DispatchOrder = SubSeq(ArrivalOrder, 1, Len(DispatchOrder))
        /\ Len(OutputOrder) <= Len(DispatchOrder)
        /\ Len(DispatchOrder) <= Len(OutputOrder) + 1
        /\ OutputOrder = SubSeq(ArrivalOrder, 1, Len(OutputOrder))
        /\ \A d \in SyncPositions("dispatch") : \A e \in SyncPositions("dispatch") :
              d < e => \E o \in SyncPositions("out") :
                          d < o /\ o < e /\ syncLog[o].id = syncLog[d].item.id

C3_Witness ==
    /\ wrapped = "map"
    /\ strmAsync
    /\ OutputOrder = <<1, 2, 3>>
    /\ \A p \in SyncPositions("in") : \A o \in SyncPositions("out") :
          syncLog[p].item.id <= 3 => p < o

\* The dispatches of items for which strm never makes an output (a filter that
\* drops the item, a branch that sends it elsewhere, an input() that throws).
DroppedDispatches == {d \in SyncPositions("dispatch") : syncLog[d].item.n = 0}

\* The items handed to input() after event d.
ArrivedAfter(d) == {syncLog[p].item : p \in {p \in SyncPositions("in") : p > d}}

\* What C11 says of the dispatch at d: the flag is still set, strm.input has
\* not been called since, and every item that arrived later is in the queue.
StalledSince(d) ==
    /\ pending = TRUE
    /\ \A e \in SyncPositions("dispatch") : e <= d
    /\ \A o \in SyncPositions("out") : syncLog[o].id < syncLog[d].item.id
    /\ \A it \in ArrivedAfter(d) : \E i \in 1..Len(buffer) : buffer[i] = it

\* C11: once strm has been handed an item for which it never makes an output,
\* pending stays TRUE, strm.input is never called again, and every later input
\* stays in the buffer, neither dispatched nor emitted.
C11_DroppedItemStallsForever ==
    \A d \in DroppedDispatches : StalledSince(d)

\* The same stall, asked only around a strm that makes at most one output per
\* input (it holds there).
StallsAroundOneOutputStrm ==
    wrapped \in {"map", "filter"} => \A d \in DroppedDispatches : StalledSince(d)

(***************************************************************************)
(* Claims about bursts into a batcher with maxItems and idleTimeout.       *)
(***************************************************************************)

\* Every object handed to the batcher's input() so far, in order.
Inputs == InputsBetween(0, Len(batchLog))

\* The arrays emitted so far, in order.
Emitted ==
    LET es == SelectSeq(batchLog, LAMBDA e : e.type = "emit")
    IN  [i \in 1..Len(es) |-> es[i].items]

\* The position of the j-th emission.
EmitPosition(j) ==
    CHOOSE q \in BatchPositions("emit") :
        Cardinality({r \in BatchPositions("emit") : r <= q}) = j

\* The j-th run of k inputs.
Chunk(j, k) == SubSeq(Inputs, (j - 1) * k + 1, j * k)

\* The inputs left over after the full runs of k.
Remainder(k) == SubSeq(Inputs, (Len(Inputs) \div k) * k + 1, Len(Inputs))

\* The first Len(Inputs) \div k emissions are the full runs of k, each made
\* inside an input() call.
FullBatchesInsideInputs(k) ==
    \A j \in 1..(Len(Inputs) \div k) :
        /\ Emitted[j] = Chunk(j, k)
        /\ batchLog[HandlerOf(EmitPosition(j))].type = "input"

\* C12: with maxItems = k and idleTimeout, a burst of n inputs with no timer
\* firing in between emits n div k batches of exactly k items inside the
\* input() calls and keeps the n mod k left over with one idle timer armed;
\* when that timer fires the left-over items are emitted as one further batch;
\* the batches concatenated are the inputs in order.  The README's runs: k = 3
\* behind the filter and the map gives [2,4,6] and [8,10,12].
C12_BurstGivesFullBatchesThenRemainder ==
    (constructed = "ok" /\ options.maxItems # undefined
     /\ options.idleTimeout # undefined) =>
        LET k == options.maxItems
            n == Len(Inputs)
            fires == BatchPositions("fire")
        IN  /\ fires = {} =>
                /\ Len(Emitted) = n \div k
                /\ FullBatchesInsideInputs(k)
                /\ batch = Remainder(k)
                /\ Cardinality(timers) = IF n % k > 0 THEN 1 ELSE 0
                /\ \A t \in timers : t.kind = "idle"
            /\ (Cardinality(fires) = 1
                /\ \A q \in fires : \A p \in BatchPositions("input") : p < q) =>
                /\ n % k > 0
                /\ Len(Emitted) = n \div k + 1
                /\ FullBatchesInsideInputs(k)
                /\ Emitted[n \div k + 1] = Remainder(k)
                /\ batchLog[HandlerOf(EmitPosition(n \div k + 1))].type = "fire"
                /\ batch = <<>>
                /\ timers = {}
            /\ (upstream = "filterMap" /\ k = 3 /\ NumFeeds >= 7 /\ fires = {}) =>
                /\ Emitted[1] = <<2, 4, 6>>
                /\ Emitted[2] = <<8, 10, 12>>

\* The README's batch() example: ten inputs, k = 4, then the idle timer.
C12_Witness ==
    /\ constructed = "ok"
    /\ upstream = "direct"
    /\ options.maxItems = 4
    /\ Emitted = << <<0, 1, 2, 3>>, <<4, 5, 6, 7>>, <<8, 9>> >>
    /\ batchLog[Len(batchLog) - 1].type = "fire"
    /\ batch = <<>>

(***************************************************************************)
(* Claims about graphs with map nodes, merges and throwing recipients.     *)
(***************************************************************************)

\* The nodes whose input() the environment called, and the objects, in order.
FedInto ==
    LET es == SelectSeq(fanLog, LAMBDA e : e.type = "input")
    IN  [i \in 1..Len(es) |-> <<es[i].node, es[i].obj>>]

\* The objects node r was handed, in order.
ReceivedBy(r) ==
    LET cs == SelectSeq(fanLog, LAMBDA e : e.type = "call" /\ e.to = r)
    IN  [i \in 1..Len(cs) |-> cs[i].obj]

\* C13: in the README's in-line merge, after 123, 456 and 789 have been fed
\* into strmA the recording forEach has received exactly 246, 456, 789.
C13_InlineMergeRecords246_456_789 ==
    FedInto = <<<<StrmA, 123>>, <<StrmA, 456>>, <<StrmA, 789>>>> =>
        ReceivedBy(Recorder) = <<246, 456, 789>>

\* What the code makes the recorder receive for those three inputs.
InlineMergeRecordsBothPaths ==
    FedInto = <<<<StrmA, 123>>, <<StrmA, 456>>, <<StrmA, 789>>>> =>
        ReceivedBy(Recorder) = <<246, 123, 912, 456, 1578, 789>>

FanPositions(type) == {p \in 1..Len(fanLog) : fanLog[p].type = type}

\* The last event of the pipe() or input() call of the environment inside
\* which event p was made.
FanCallEnd(p) ==
    LET starts == {q \in FanPositions("input") \cup FanPositions("pipe") : q > p}
    IN  IF starts = {} THEN Len(fanLog)
        ELSE (CHOOSE q \in starts : \A r \in starts : q <= r) - 1

\* The event in which node n was handed the object it is emitting at event t.
EmissionStart(n, t) ==
    LET ss == {s \in 1..(t - 1) : IsInputTo(fanLog[s], n)}
    IN  CHOOSE s \in ss : \A r \in ss : r <= s

\* The recipients node n called between events s and t, in order.
CalledBetween(n, s, t) ==
    LET cs == SelectSeq(SubSeq(fanLog, s + 1, t - 1),
                        LAMBDA e : e.type = "call" /\ e.by = n)
    IN  [i \in 1..Len(cs) |-> cs[i].to]

\* C14: when a recipient's input() throws, the emitting node has by then
\* called, in registration order, the recipients registered before it, each
\* with the object; nothing is called after the throw, in that node or in any
\* node up the call chain: the exception ends the external input() call.
C14_ThrowAbortsFanOut ==
    \A t \in FanPositions("throw") :
        LET c == fanLog[t - 1]
            s == EmissionStart(c.by, t)
            made == CalledBetween(c.by, s, t)
        IN  /\ c.type = "call" /\ c.to = fanLog[t].by /\ c.obj = fanLog[t].obj
            /\ kinds[c.to] = "throws"
            /\ t = FanCallEnd(t)
            /\ made = SubSeq(RegsAt(c.by, s), 1, Len(made))
            /\ made[Len(made)] = c.to
            /\ \A i \in 1..(Len(made) - 1) : kinds[made[i]] = "pass"
            /\ \A q \in (s + 1)..(t - 1) :
                  (fanLog[q].type = "call" /\ fanLog[q].by = c.by) => fanLog[q].obj = c.obj

\* Node 2 is registered on Entry before and after the throwing node 3: it has
\* received the object once, and the exception was the end of the call.
C14_Witness ==
    /\ outputStreams[Entry] = <<2, 3, 2>>
    /\ kinds = <<"pass", "pass", "throws">>
    /\ Len(fanLog) = 7
    /\ fanLog[4] = [type |-> "input", node |-> Entry, obj |-> "a"]
    /\ fanLog[5] = [type |-> "call", by |-> Entry, to |-> 2, obj |-> "a"]
    /\ fanLog[6] = [type |-> "call", by |-> Entry, to |-> 3, obj |-> "a"]
    /\ fanLog[7] = [type |-> "throw", by |-> 3, obj |-> "a"]

(***************************************************************************)
(* Claims about the order of a synchronous delivery.                       *)
(***************************************************************************)

RECURSIVE SubtreeCalls(_, _)
RECURSIVE SubtreeCallsFrom(_, _, _)
\* The number of input() calls made below node r for one object it is handed,
\* with the links registered before event p: one per recipient, plus those
\* made below that recipient.
SubtreeCalls(r, p) == SubtreeCallsFrom(r, p, 1)

SubtreeCallsFrom(r, p, i) ==
    IF i > Len(RegsAt(r, p)) THEN 0
    ELSE 1 + SubtreeCalls(RegsAt(r, p)[i], p) + SubtreeCallsFrom(r, p, i + 1)

RECURSIVE Below(_, _)
\* Node r and the nodes reachable from it by the links registered before p.
Below(r, p) ==
    {r} \cup UNION {Below(RegsAt(r, p)[i], p) : i \in 1..Len(RegsAt(r, p))}

\* Node r was handed an object at event q (an input() call of the environment
\* or of another node): the events that follow are r's calls to its
\* recipients, in registration order, and the calls made below them, and
\* they are all made before the environment's call returns.
SubtreeFollows(r, q) ==
    LET size == SubtreeCalls(r, q)
    IN  /\ q + size <= FanCallEnd(q)
        /\ \A x \in (q + 1)..(q + size) :
              /\ fanLog[x].type = "call"
              /\ fanLog[x].by \in Below(r, q)
              /\ fanLog[x].obj = fanLog[q].obj
        /\ CalledBetween(r, q, q + size + 1) = RegsAt(r, q)

\* C15: with synchronous nodes only, an input() call returns after the object
\* has been handed to every node reachable from the Entry Node, and the
\* delivery is depth first: the calls made below a recipient directly follow
\* the call that handed it the object, so that the whole subtree of the
\* first-registered recipient comes before the call to the second.
C15_SynchronousDepthFirst ==
    /\ \A p \in FanPositions("input") :
          /\ SubtreeFollows(Entry, p)
          /\ FanCallEnd(p) = p + SubtreeCalls(Entry, p)
          /\ \A m \in Below(Entry, p) \ {Entry} :
                \E x \in (p + 1)..FanCallEnd(p) : fanLog[x].to = m
    /\ \A q \in FanPositions("call") : SubtreeFollows(fanLog[q].to, q)

\* Entry feeds 2 then 3, and 2 feeds 3: node 3 gets the object through 2
\* before it gets it from Entry.
C15_Witness ==
    /\ outputStreams = << <<2, 3>>, <<3>>, <<>> >>
    /\ Len(fanLog) = 7
    /\ fanLog[4].type = "input"
    /\ fanLog[5] = [type |-> "call", by |-> Entry, to |-> 2, obj |-> "b"]
    /\ fanLog[6] = [type |-> "call", by |-> 2, to |-> 3, obj |-> "b"]
    /\ fanLog[7] = [type |-> "call", by |-> Entry, to |-> 3, obj |-> "b"]

(***************************************************************************)
(* Claims about the batcher's timers.                                      *)
(***************************************************************************)

TimersOfKind(kind) == {t \in timers : t.kind = kind}

\* The "set" events before event p whose timer had neither fired nor been
\* cleared by then.
ArmedBefore(p, kind) ==
    {x \in BatchPositions("set") :
        /\ x < p
        /\ batchLog[x].kind = kind
        /\ \A y \in (x + 1)..(p - 1) :
              ~(batchLog[y].type \in {"clear", "fire"} /\ batchLog[y].id = batchLog[x].id)}

\* C16: at most one idle timer and at most one delay timer is armed, never
\* one of each; the handle fields name exactly the armed timers; and no
\* setTimeout is made while a timer of its kind is armed.
C16_AtMostOneTimerArmed ==
    /\ Cardinality(TimersOfKind("idle")) <= 1
    /\ Cardinality(TimersOfKind("delay")) <= 1
    /\ Cardinality(timers) <= 1
    /\ {t.id : t \in TimersOfKind("idle")} = {idleTimer} \ {null}
    /\ {t.id : t \in TimersOfKind("delay")} = {delayTimer} \ {null}
    /\ \A x \in BatchPositions("set") :
          ArmedBefore(x, "idle") = {} /\ ArmedBefore(x, "delay") = {}

\* A third input under idleTimeout: two idle timers were cleared, one is armed.
C16_Witness ==
    /\ constructed = "ok"
    /\ options.idleTimeout = 100
    /\ Len(batch) = 3
    /\ Cardinality(BatchPositions("set")) = 3
    /\ Cardinality(BatchPositions("clear")) = 2
    /\ Cardinality(timers) = 1

\* C17: whenever the buffer is empty no timer is armed, whether the last flush
\* was made by the maxItems test, by the idle timer or by the delay timer.
C17_EmptyBufferNoTimer ==
    batch = <<>> => (timers = {} /\ idleTimer = null /\ delayTimer = null)

\* The input that reaches maxItems flushes while the delay timer is armed.
C17_Witness ==
    /\ constructed = "ok"
    /\ options = [maxItems |-> 2, idleTimeout |-> undefined, delayTimeout |-> 100]
    /\ Len(batchLog) >= 3
    /\ batchLog[Len(batchLog)].type = "emit"
    /\ batchLog[Len(batchLog) - 1].type = "clear"
    /\ batchLog[Len(batchLog) - 2].type = "input"
    /\ batch = <<>>
    /\ timers = {}

\* The idle timer armed when the input() call at p began, if any, is cleared
\* inside the call.
ArmedIdleTimerCleared(p) ==
    \A x \in ArmedBefore(p, "idle") :
        \E y \in InHandler(p, "clear") : batchLog[y].id = batchLog[x].id

IdleTimersSetIn(p) == {x \in InHandler(p, "set") : batchLog[x].kind = "idle"}

\* C18 as claimed: every input() call, under any policy, cancels the armed
\* idle timer and schedules an idle timer.
C18_EveryInputRearmsIdle ==
    constructed = "ok" =>
        \A p \in BatchPositions("input") :
            ArmedIdleTimerCleared(p) /\ IdleTimersSetIn(p) # {}

\* C18 as amended: every input() call cancels the armed idle timer, and it
\* schedules an idle timer, one, of idleTimeout ms, exactly when idleTimeout is
\* configured and the call does not flush on reaching maxItems.
C18_IdleRearmedOnlyUnderIdlePolicy ==
    constructed = "ok" =>
        \A p \in BatchPositions("input") :
            /\ ArmedIdleTimerCleared(p)
            /\ IdleTimersSetIn(p) # {} <=>
                  (options.idleTimeout # undefined /\ InHandler(p, "emit") = {})
            /\ Cardinality(IdleTimersSetIn(p)) <= 1
            /\ \A x \in IdleTimersSetIn(p) : batchLog[x].ms = options.idleTimeout

\* With idleTimeout and maxItems = 2: the first input arms the idle timer, the
\* second cancels it, flushes and arms none.
C18_Witness ==
    /\ constructed = "ok"
    /\ options = [maxItems |-> 2, idleTimeout |-> 100, delayTimeout |-> undefined]
    /\ Len(batchLog) = 6
    /\ batchLog[3].type = "set" /\ batchLog[3].kind = "idle"
    /\ batchLog[4].type = "input"
    /\ batchLog[5].type = "clear" /\ batchLog[5].id = batchLog[3].id
    /\ batchLog[6].type = "emit"
    /\ timers = {}

(***************************************************************************)
(* Claims about the flush as one step.                                     *)
(***************************************************************************)

\* The objects pushed onto the buffer after the last emission, by input()
\* calls of the environment and by input() calls made inside output().
PushedSinceLastEmit ==
    LET es == SelectSeq(SubSeq(batchLog, LastEmitBefore(Len(batchLog) + 1) + 1,
                               Len(batchLog)),
                        LAMBDA e : e.type \in {"input", "reentry"})
    IN  [i \in 1..Len(es) |-> es[i].obj]

\* Between output(this.batch) and this.batch = [] nothing runs on the batcher:
\* the emission is the last event of the call that made it, no input() is
\* made inside output(), and the reset removes the emitted items only.
FlushIsOneStep ==
    /\ BatchPositions("reentry") = {}
    /\ \A q \in BatchPositions("emit") : q = HandlerEnd(HandlerOf(q))
    /\ batch = PushedSinceLastEmit

\* C19 as claimed: in any graph built with pipe, the flush is one step.
C19_FlushAtomicInAnyGraph == constructed = "ok" => FlushIsOneStep

\* C19 as amended: in a graph in which no path leads from the batcher's
\* output back to its input, the flush is one step.
C19_FlushAtomicWithoutFeedback ==
    (constructed = "ok" /\ ~feedback) => FlushIsOneStep

\* Without feedback: a timer flushed two items and a later input is buffered.
C19_Witness ==
    /\ constructed = "ok"
    /\ ~feedback
    /\ options.maxItems = undefined
    /\ \E q \in BatchPositions("emit") :
          /\ batchLog[q].items = <<"a", "a">>
          /\ batchLog[q - 1].type = "fire"
          /\ q < Len(batchLog)
          /\ batchLog[q + 1].type = "input"
    /\ batch = <<"a">>

(***************************************************************************)
(* Claims about what the batcher emits, with emitBatch() also called by    *)
(* external code.                                                          *)
(***************************************************************************)

RECURSIVE Concatenated(_, _)
\* The first i arrays of seqs, joined.
Concatenated(seqs, i) ==
    IF i = 0 THEN <<>> ELSE Concatenated(seqs, i - 1) \o seqs[i]

\* The calls of the environment: input(), a timer firing, emitBatch().
Operations ==
    BatchPositions("input") \cup BatchPositions("fire") \cup BatchPositions("flush")

\* The emissions made inside the operation that starts at p.
EmittedInside(p) ==
    {q \in BatchPositions("emit") :
        /\ p < q
        /\ \A r \in Operations : ~(p < r /\ r < q)}

\* C20: under every configuration the constructor accepts, the emitted
\* batches joined and followed by the buffer are the inputs received so far, in
\* order: no item is emitted twice, lost or reordered. An operation emits at
\* most once, never an empty array, and a flush on an empty buffer, by a timer
\* or by a call of emitBatch(), emits nothing.
C20_BatchesPartitionTheInputs ==
    constructed = "ok" =>
        /\ Concatenated(Emitted, Len(Emitted)) \o batch = Inputs
        /\ \A j \in 1..Len(Emitted) : Emitted[j] # <<>>
        /\ \A p \in Operations : Cardinality(EmittedInside(p)) <= 1
        /\ \A p \in BatchPositions("fire") \cup BatchPositions("flush") :
              /\ Unflushed(p) = <<>> => EmittedInside(p) = {}
              /\ \A q \in EmittedInside(p) : batchLog[q].items = Unflushed(p)

\* emitBatch() is called twice in a row: the first call emits the buffer, the
\* second finds it empty and emits nothing.
C20_Witness ==
    /\ constructed = "ok"
    /\ Len(batchLog) >= 4
    /\ batchLog[Len(batchLog)].type = "flush"
    /\ batchLog[Len(batchLog) - 1].type = "emit"
    /\ batchLog[Len(batchLog) - 1].items = <<"a", "b">>
    /\ batchLog[Len(batchLog) - 2].type = "flush"
    /\ batch = <<>>

(***************************************************************************)
(* Claims about progress of the SynchroniserStream.                        *)
(***************************************************************************)

Arrived(id) == \E p \in SyncPositions("in") : syncLog[p].item.id = id

Dispatched(id) == \E p \in SyncPositions("dispatch") : syncLog[p].item.id = id

ReEmitted(id) == \E p \in SyncPositions("out") : syncLog[p].id = id

\* A step in which a producer calls input().
InputStep == Len(ArrivalOrder') > Len(ArrivalOrder)

\* C21: around a strm that makes exactly one output for every input, every
\* item handed to input() is dispatched to strm in the end and its output is
\* re-emitted in the end; and once no more inputs come, the buffer is empty and
\* pending is FALSE from some point on.
C21_EveryItemDispatchedAndReEmitted ==
    /\ \A id \in 1..(MaxSyncInputs + 1) :
          (wrapped = "map" /\ Arrived(id)) ~> (Dispatched(id) /\ ReEmitted(id))
    /\ (wrapped = "map" /\ <>[][~InputStep]_vars) =>
          <>[](buffer = <<>> /\ pending = FALSE)

\* Four items arrived while the first was in flight, and all have been
\* re-emitted: the buffer has drained.
C21_Witness ==
    /\ wrapped = "map"
    /\ strmAsync
    /\ OutputOrder = <<1, 2, 3, 4>>
    /\ \A p \in SyncPositions("in") : \A o \in SyncPositions("out") : p < o
    /\ buffer = <<>>
    /\ pending = FALSE

(***************************************************************************)
(* Claims about a batcher with maxItems and no timeout.                    *)
(***************************************************************************)

\* The caller gave maxItems and neither timeout.
MaxItemsOnly ==
    /\ constructed = "ok"
    /\ Requested.maxItems # undefined
    /\ Requested.idleTimeout = undefined
    /\ Requested.delayTimeout = undefined

\* C22: a batcher given maxItems = k and no timeout keeps its options as
\* given (no idleTimeout = 0 default), never calls setTimeout, so no timer is
\* ever armed or fires; every batch has exactly k items and is emitted inside
\* an input() call; the buffer holds the fewer than k trailing inputs, and
\* with no timer pending only a further input() can flush them.
C22_MaxItemsOnlyArmsNoTimer ==
    MaxItemsOnly =>
        /\ options = Requested
        /\ BatchPositions("set") = {}
        /\ BatchPositions("fire") = {}
        /\ timers = {} /\ idleTimer = null /\ delayTimer = null
        /\ \A q \in BatchPositions("emit") :
              /\ Len(batchLog[q].items) = options.maxItems
              /\ batchLog[HandlerOf(q)].type = "input"
        /\ Len(batch) < options.maxItems
        /\ batch = UnflushedNow
        /\ ~(ENABLED (\E t \in timers : TimerFires(t)))

\* Five inputs with maxItems = 3: one batch of three, two items left in the
\* buffer and nothing pending that would emit them.
C22_Witness ==
    /\ MaxItemsOnly
    /\ options.maxItems = 3
    /\ Emitted = << <<"a", "b", "a">> >>
    /\ batch = <<"b", "a">>
    /\ timers = {}

====
